---- MODULE Spec2Model ----
(***************************************************************************)
(* Alert dispatch and settings handlers of the CloudGuard dashboard:       *)
(*   lib/integrations   sendSpikeAlert, sendBulkSpikeAlerts,                *)
(*                      sendAuditSummaryAlert        (src/unnamed/part_000) *)
(*   api/spike/alert    POST (single alert), POST (test webhook)            *)
(*                                    (src/src/app/api/spike/alert/route.ts)*)
(*   api/spike/audit    POST (audit alert)           (src/unnamed/part_001) *)
(*   api/settings       GET, POST                    (src/unnamed/part_001) *)
(***************************************************************************)
EXTENDS Integers, Sequences, FiniteSets, TLC

VARIABLES
    userExists,     \* the caller's row exists in the user table
    settingsRow,    \* the caller's userSettings row, or Null when there is none
    req,            \* the operation in progress (or last completed) and its inputs
    pc,             \* position of that operation
    findings,       \* sendBulkSpikeAlerts: the findings argument
    idx,            \* sendBulkSpikeAlerts: position in alertableFindings
    sent,           \* sendBulkSpikeAlerts: sent counter
    skipped,        \* sendBulkSpikeAlerts: skipped counter
    summaryResult,  \* audit POST: result of sendAuditSummaryAlert
    http,           \* the webhook exchange of the current send, or Null
    log,            \* one entry per dispatch call made by the operation
    queries,        \* number of prisma queries the operation has issued
    ret             \* what the operation returned, or Null while it runs

vars == <<userExists, settingsRow, req, pc, findings, idx, sent, skipped,
          summaryResult, http, log, queries, ret>>

----------------------------------------------------------------------------
(* JavaScript values                                                       *)

Undefined == [t |-> "undefined"]
Null == [t |-> "null"]
Bool(b) == [t |-> "boolean", v |-> b]
Str(s) == [t |-> "string", v |-> s]

\* ToBoolean: undefined, null, false and "" are falsy
Truthy(x) ==
    CASE x.t = "undefined" -> FALSE
      [] x.t = "null" -> FALSE
      [] x.t = "boolean" -> x.v
      [] x.t = "string" -> x.v # ""
      [] OTHER -> TRUE

\* a ?? b
Coalesce(a, b) == IF a.t = "undefined" \/ a.t = "null" THEN b ELSE a

\* a || b
OrElse(a, b) == IF Truthy(a) THEN a ELSE b

\* String.prototype.toUpperCase on the severity labels of the model
toUpperCase(s) ==
    CASE s = "critical" -> "CRITICAL"
      [] s = "Critical" -> "CRITICAL"
      [] s = "high" -> "HIGH"
      [] s = "High" -> "HIGH"
      [] s = "medium" -> "MEDIUM"
      [] s = "low" -> "LOW"
      [] s = "info" -> "INFO"
      [] OTHER -> s

----------------------------------------------------------------------------
(* Bounds and input sets                                                   *)

MaxFindings == 3
MaxCount == 1

WebhookUrl == "https://hooks.spike.sh/a"
UserEmail == "user@example.com"

SeverityLabels ==
    {"CRITICAL", "HIGH", "MEDIUM", "LOW", "critical", "High", "medium", "low",
     "INFO", "info", ""}

\* severities of the findings handed to sendBulkSpikeAlerts
FindingLabels == {"CRITICAL", "high", "MEDIUM", "LOW"}

\* severities of the findings stored with an audit
AuditLabels == {"CRITICAL", "HIGH", "MEDIUM", "high"}

Priorities == {"P1", "P2", "P3", "P4"}

HttpStatuses == {200, 204, 500}

Throw == [t |-> "throw"]
Return(v) == [t |-> "return", v |-> v]
Value(v) == [t |-> "value", v |-> v]
Fetch(url, payload) == [t |-> "fetch", url |-> url, payload |-> payload]
Response(status, body) == [t |-> "response", status |-> status, body |-> body]

\* Response.ok
ResponseOk(response) == response.status >= 200 /\ response.status <= 299

\* what a fetch() of the webhook can come to: a rejected promise (DNS, timeout,
\* connection reset) or a response; the handlers read the body (response.text())
\* of a response that is not ok, and that read may fail too
FetchOutcomes ==
    {Throw} \cup {o \in [t : {"response"}, status : HttpStatuses, text : {"ok", "throw"}] :
                     ResponseOk(o) => o.text = "ok"}

\* what a prisma query can come to: a rejected promise or the row (Null for none)
Lookup(fails, row) == IF fails THEN Throw ELSE Value(row)

----------------------------------------------------------------------------
(* The settings store                                                      *)

Row(url, enabled, onCritical, onHigh) ==
    [spikeWebhookUrl |-> url, spikeEnabled |-> Bool(enabled),
     spikeAlertOnCritical |-> Bool(onCritical), spikeAlertOnHigh |-> Bool(onHigh),
     slackWebhookUrl |-> Null, slackEnabled |-> Bool(FALSE),
     emailAlerts |-> Bool(TRUE), alertThreshold |-> Str("CRITICAL")]

StoredUrls == {Null, Str(""), Str(WebhookUrl)}

SettingsRows ==
    {Row(u, e, c, h) : u \in StoredUrls, e \in BOOLEAN, c \in BOOLEAN, h \in BOOLEAN}

----------------------------------------------------------------------------
(* Alert policy: lib/integrations                                          *)

mapSeverityToPriority(severity) ==
    LET s == toUpperCase(severity) IN
    CASE s = "CRITICAL" -> "P1"
      [] s = "HIGH" -> "P2"
      [] s = "MEDIUM" -> "P3"
      [] s = "LOW" -> "P4"
      [] OTHER -> "P3"

\* spikeNotEnabled without the test of the enabled flag
spikeNotEnabled_urlOnly(settings) ==
    \/ settings = Null
    \/ ~Truthy(settings.spikeWebhookUrl)

\* !settings?.spikeEnabled || !settings?.spikeWebhookUrl
spikeNotEnabled(settings) ==
    \/ settings = Null
    \/ ~Truthy(settings.spikeEnabled)
    \/ ~Truthy(settings.spikeWebhookUrl)

\* sendSpikeAlertBegin with the HIGH check reading spikeAlertOnCritical
sendSpikeAlertBegin_oneOptIn(lookup, finding) ==
    IF lookup.t = "throw" THEN Throw
    ELSE LET settings == lookup.v
             severity == toUpperCase(finding.severity)
         IN  IF spikeNotEnabled(settings) THEN Return(Bool(FALSE))
             ELSE IF severity = "CRITICAL" /\ ~Truthy(settings.spikeAlertOnCritical)
                  THEN Return(Bool(FALSE))
             ELSE IF severity = "HIGH" /\ ~Truthy(settings.spikeAlertOnCritical)
                  THEN Return(Bool(FALSE))
             ELSE IF severity # "CRITICAL" /\ severity # "HIGH"
                  THEN Return(Bool(FALSE))
             ELSE Fetch(settings.spikeWebhookUrl.v,
                        [type |-> "finding",
                         title |-> severity,
                         status |-> IF severity = "CRITICAL" THEN "CRITICAL"
                                    ELSE "WARNING",
                         priority |-> mapSeverityToPriority(severity),
                         severity |-> finding.severity])

\* sendSpikeAlert, from the settings lookup to the fetch call
sendSpikeAlertBegin(lookup, finding) ==
    IF lookup.t = "throw" THEN Throw
    ELSE LET settings == lookup.v
             severity == toUpperCase(finding.severity)
         IN  IF spikeNotEnabled(settings) THEN Return(Bool(FALSE))
             ELSE IF severity = "CRITICAL" /\ ~Truthy(settings.spikeAlertOnCritical)
                  THEN Return(Bool(FALSE))
             ELSE IF severity = "HIGH" /\ ~Truthy(settings.spikeAlertOnHigh)
                  THEN Return(Bool(FALSE))
             ELSE IF severity # "CRITICAL" /\ severity # "HIGH"
                  THEN Return(Bool(FALSE))
             ELSE Fetch(settings.spikeWebhookUrl.v,
                        [type |-> "finding",
                         title |-> severity,
                         status |-> IF severity = "CRITICAL" THEN "CRITICAL"
                                    ELSE "WARNING",
                         priority |-> mapSeverityToPriority(severity),
                         severity |-> finding.severity])

\* sendAlertEnd taking every response that arrived for a success
sendAlertEnd_anyResponse(outcome) ==
    IF outcome.t = "throw" THEN Throw ELSE Return(Bool(TRUE))

\* sendSpikeAlert and sendAuditSummaryAlert, from the fetch result to the return
sendAlertEnd(outcome) ==
    IF outcome.t = "throw" THEN Throw
    ELSE IF ~ResponseOk(outcome)
         THEN IF outcome.text = "throw" THEN Throw ELSE Return(Bool(FALSE))
         ELSE Return(Bool(TRUE))

\* the catch clause of sendSpikeAlert and of sendAuditSummaryAlert
sendAlertCatch(completion) ==
    IF completion.t = "throw" THEN Return(Bool(FALSE)) ELSE completion

\* alertableFindings with the filter left out
alertableFindings_unfiltered(fs) == fs

\* sendBulkSpikeAlerts: the filter to critical and high findings
alertableFindings(fs) ==
    SelectSeq(fs, LAMBDA f : toUpperCase(f.severity) = "CRITICAL"
                             \/ toUpperCase(f.severity) = "HIGH")

\* sendAuditSummaryAlertBegin with the priority taken from the high count
sendAuditSummaryAlertBegin_byHigh(lookup, summary) ==
    IF lookup.t = "throw" THEN Throw
    ELSE LET settings == lookup.v IN
         IF spikeNotEnabled(settings) THEN Return(Bool(FALSE))
         ELSE IF summary.critical = 0 /\ summary.high = 0 THEN Return(Bool(FALSE))
         ELSE Fetch(settings.spikeWebhookUrl.v,
                    [type |-> "audit_summary",
                     title |-> "Audit Complete",
                     status |-> IF summary.critical > 0 THEN "CRITICAL" ELSE "WARNING",
                     priority |-> IF summary.high > 0 THEN "P2" ELSE "P1",
                     severity |-> ""])

\* sendAuditSummaryAlertBegin counting a severity only if its opt-in is on
sendAuditSummaryAlertBegin_byOptIns(lookup, summary) ==
    IF lookup.t = "throw" THEN Throw
    ELSE LET settings == lookup.v IN
         IF spikeNotEnabled(settings) THEN Return(Bool(FALSE))
         ELSE IF /\ summary.critical = 0 \/ ~Truthy(settings.spikeAlertOnCritical)
                 /\ summary.high = 0 \/ ~Truthy(settings.spikeAlertOnHigh)
         THEN Return(Bool(FALSE))
         ELSE Fetch(settings.spikeWebhookUrl.v,
                    [type |-> "audit_summary",
                     title |-> "Audit Complete",
                     status |-> IF summary.critical > 0 THEN "CRITICAL" ELSE "WARNING",
                     priority |-> IF summary.critical > 0 THEN "P1" ELSE "P2",
                     severity |-> ""])

\* sendAuditSummaryAlert, from the settings lookup to the fetch call
sendAuditSummaryAlertBegin(lookup, summary) ==
    IF lookup.t = "throw" THEN Throw
    ELSE LET settings == lookup.v IN
         IF spikeNotEnabled(settings) THEN Return(Bool(FALSE))
         ELSE IF summary.critical = 0 /\ summary.high = 0 THEN Return(Bool(FALSE))
         ELSE Fetch(settings.spikeWebhookUrl.v,
                    [type |-> "audit_summary",
                     title |-> "Audit Complete",
                     status |-> IF summary.critical > 0 THEN "CRITICAL" ELSE "WARNING",
                     priority |-> IF summary.critical > 0 THEN "P1" ELSE "P2",
                     severity |-> ""])

----------------------------------------------------------------------------
(* Inputs                                                                  *)

Findings == [severity : FindingLabels]

RECURSIVE SeqsUpTo(_, _)
SeqsUpTo(S, n) ==
    IF n = 0 THEN {<<>>}
    ELSE LET shorter == SeqsUpTo(S, n - 1) IN
         shorter \cup {Append(q, x) : q \in shorter, x \in S}

FindingLists == SeqsUpTo(Findings, MaxFindings)

\* the caller fills in the five counters, the total like the others
Summaries ==
    {[critical |-> c, high |-> h, medium |-> m, low |-> l, total |-> t] :
        c \in 0..MaxCount, h \in 0..MaxCount, m \in 0..MaxCount, l \in 0..MaxCount,
        t \in 0..(4 * MaxCount)}

----------------------------------------------------------------------------
(* Bookkeeping of the calls an operation makes                             *)

\* one dispatch call: what it was for, the settings lookup it made, whether it
\* reached fetch, and how it completed (Null while the fetch is in flight)
Entry(type, finding, lookup, begin, completion) ==
    [type |-> type, finding |-> finding, lookup |-> lookup,
     posted |-> begin.t = "fetch", completion |-> completion]

Exchange(begin) == [url |-> begin.url, payload |-> begin.payload, outcome |-> Null]

Completed(l, completion) == [l EXCEPT ![Len(l)].completion = completion]

Idle == pc = "idle"

----------------------------------------------------------------------------
(* lib/integrations: sendSpikeAlert called on its own                      *)

LibSendSpikeAlert(finding, fails) ==
    /\ Idle
    /\ LET lookup == Lookup(fails, settingsRow)
           begin == sendSpikeAlertBegin(lookup, finding)
       IN  /\ req' = [op |-> "sendSpikeAlert", finding |-> finding]
           /\ IF begin.t = "fetch"
              THEN /\ http' = Exchange(begin)
                   /\ log' = <<Entry("finding", finding, lookup, begin, Null)>>
                   /\ pc' = "single_fetch"
                   /\ ret' = Null
              ELSE /\ http' = Null
                   /\ log' = <<Entry("finding", finding, lookup, begin,
                                     sendAlertCatch(begin))>>
                   /\ pc' = "done"
                   /\ ret' = sendAlertCatch(begin)
    /\ findings' = <<>>
    /\ idx' = 0
    /\ sent' = 0
    /\ skipped' = 0
    /\ summaryResult' = Null
    /\ queries' = 1
    /\ UNCHANGED <<userExists, settingsRow>>

SingleFetchReturn(outcome) ==
    /\ pc = "single_fetch"
    /\ LET completion == sendAlertCatch(sendAlertEnd(outcome)) IN
       /\ http' = [http EXCEPT !.outcome = outcome]
       /\ log' = Completed(log, completion)
       /\ ret' = completion
    /\ pc' = "done"
    /\ UNCHANGED <<userExists, settingsRow, req, findings, idx, sent, skipped,
                   summaryResult, queries>>

----------------------------------------------------------------------------
(* api/spike/audit: responses of the audit-alert handler                   *)

ErrorBody(message) == [error |-> message]

\* the catch clause of every route handler
routeCatch == Response(500, ErrorBody("Internal server error"))

auditSuccess(summarySent, individual) ==
    Response(200, [success |-> TRUE, summaryAlertSent |-> summarySent,
                   individualAlerts |-> individual])

----------------------------------------------------------------------------
(* lib/integrations: sendAuditSummaryAlert, on its own or from the audit   *)
(* handler                                                                 *)

LibSendAuditSummaryAlert(summary) ==
    /\ Idle
    /\ req' = [op |-> "sendAuditSummaryAlert", summary |-> summary]
    /\ pc' = "summary"
    /\ findings' = <<>>
    /\ idx' = 0
    /\ sent' = 0
    /\ skipped' = 0
    /\ summaryResult' = Null
    /\ http' = Null
    /\ log' = <<>>
    /\ queries' = 0
    /\ ret' = Null
    /\ UNCHANGED <<userExists, settingsRow>>

\* AfterSummary sending the individual alerts whatever the flag says
AfterSummary_flagIgnored(completion) ==
    IF req.op = "sendAuditSummaryAlert"
    THEN /\ pc' = "done"
         /\ ret' = completion
         /\ UNCHANGED <<summaryResult, idx>>
    ELSE IF completion.t = "throw"
    THEN /\ pc' = "done"
         /\ ret' = routeCatch
         /\ UNCHANGED <<summaryResult, idx>>
    ELSE /\ summaryResult' = completion.v
         /\ IF Len(findings) > 0
            THEN /\ pc' = "bulk"
                 /\ idx' = 1
                 /\ ret' = Null
            ELSE /\ pc' = "done"
                 /\ idx' = idx
                 /\ ret' = auditSuccess(completion.v, [sent |-> 0, skipped |-> 0])

\* what follows the return of sendAuditSummaryAlert: the caller's return, or
\* lines 124-141 of the audit handler
AfterSummary(completion) ==
    IF req.op = "sendAuditSummaryAlert"
    THEN /\ pc' = "done"
         /\ ret' = completion
         /\ UNCHANGED <<summaryResult, idx>>
    ELSE IF completion.t = "throw"
    THEN /\ pc' = "done"
         /\ ret' = routeCatch
         /\ UNCHANGED <<summaryResult, idx>>
    ELSE /\ summaryResult' = completion.v
         /\ IF Truthy(req.sendIndividualAlerts) /\ Len(findings) > 0
            THEN /\ pc' = "bulk"
                 /\ idx' = 1
                 /\ ret' = Null
            ELSE /\ pc' = "done"
                 /\ idx' = idx
                 /\ ret' = auditSuccess(completion.v, [sent |-> 0, skipped |-> 0])

SummaryCall(fails) ==
    /\ pc = "summary"
    /\ LET lookup == Lookup(fails, settingsRow)
           begin == sendAuditSummaryAlertBegin(lookup, req.summary)
       IN  IF begin.t = "fetch"
           THEN /\ http' = Exchange(begin)
                /\ log' = Append(log, Entry("audit_summary", Null, lookup, begin, Null))
                /\ pc' = "summary_fetch"
                /\ UNCHANGED <<ret, summaryResult, idx>>
           ELSE /\ http' = Null
                /\ log' = Append(log, Entry("audit_summary", Null, lookup, begin,
                                            sendAlertCatch(begin)))
                /\ AfterSummary(sendAlertCatch(begin))
    /\ queries' = queries + 1
    /\ UNCHANGED <<userExists, settingsRow, req, findings, sent, skipped>>

SummaryFetchReturn(outcome) ==
    /\ pc = "summary_fetch"
    /\ LET completion == sendAlertCatch(sendAlertEnd(outcome)) IN
       /\ http' = [http EXCEPT !.outcome = outcome]
       /\ log' = Completed(log, completion)
       /\ AfterSummary(completion)
    /\ UNCHANGED <<userExists, settingsRow, req, findings, sent, skipped, queries>>

----------------------------------------------------------------------------
(* lib/integrations: sendBulkSpikeAlerts, on its own or from the audit     *)
(* handler                                                                 *)

LibSendBulkSpikeAlerts(fs) ==
    /\ Idle
    /\ req' = [op |-> "sendBulkSpikeAlerts"]
    /\ findings' = fs
    /\ idx' = 1
    /\ sent' = 0
    /\ skipped' = 0
    /\ pc' = "bulk"
    /\ summaryResult' = Null
    /\ http' = Null
    /\ log' = <<>>
    /\ queries' = 0
    /\ ret' = Null
    /\ UNCHANGED <<userExists, settingsRow>>

\* AfterSpikeAlert leaving the loop at the first send that did not succeed
AfterSpikeAlert_stopsOnFailure(completion) ==
    IF completion.t = "throw"
    THEN /\ pc' = "done"
         /\ ret' = IF req.op = "sendBulkSpikeAlerts" THEN Throw ELSE routeCatch
         /\ UNCHANGED <<idx, sent, skipped>>
    ELSE IF Truthy(completion.v)
    THEN /\ sent' = sent + 1
         /\ skipped' = skipped
         /\ idx' = idx + 1
         /\ pc' = "bulk"
         /\ ret' = ret
    ELSE /\ skipped' = skipped + 1
         /\ sent' = sent
         /\ idx' = idx
         /\ pc' = "done"
         /\ ret' = IF req.op = "sendBulkSpikeAlerts"
                   THEN Return([sent |-> sent, skipped |-> skipped + 1])
                   ELSE auditSuccess(summaryResult,
                                     [sent |-> sent, skipped |-> skipped + 1])

\* lines 138-146: count the result, wait 100 ms, go on with the next finding
AfterSpikeAlert(completion) ==
    IF completion.t = "throw"
    THEN /\ pc' = "done"
         /\ ret' = IF req.op = "sendBulkSpikeAlerts" THEN Throw ELSE routeCatch
         /\ UNCHANGED <<idx, sent, skipped>>
    ELSE /\ IF Truthy(completion.v)
            THEN sent' = sent + 1 /\ skipped' = skipped
            ELSE skipped' = skipped + 1 /\ sent' = sent
         /\ idx' = idx + 1
         /\ pc' = "bulk"
         /\ ret' = ret

BulkCall(fails) ==
    /\ pc = "bulk"
    /\ idx <= Len(alertableFindings(findings))
    /\ LET finding == alertableFindings(findings)[idx]
           lookup == Lookup(fails, settingsRow)
           begin == sendSpikeAlertBegin(lookup, finding)
       IN  IF begin.t = "fetch"
           THEN /\ http' = Exchange(begin)
                /\ log' = Append(log, Entry("finding", finding, lookup, begin, Null))
                /\ pc' = "bulk_fetch"
                /\ UNCHANGED <<idx, sent, skipped, ret>>
           ELSE /\ http' = Null
                /\ log' = Append(log, Entry("finding", finding, lookup, begin,
                                            sendAlertCatch(begin)))
                /\ AfterSpikeAlert(sendAlertCatch(begin))
    /\ queries' = queries + 1
    /\ UNCHANGED <<userExists, settingsRow, req, findings, summaryResult>>

BulkFetchReturn(outcome) ==
    /\ pc = "bulk_fetch"
    /\ LET completion == sendAlertCatch(sendAlertEnd(outcome)) IN
       /\ http' = [http EXCEPT !.outcome = outcome]
       /\ log' = Completed(log, completion)
       /\ AfterSpikeAlert(completion)
    /\ UNCHANGED <<userExists, settingsRow, req, findings, summaryResult, queries>>

\* line 148, and lines 136-141 of the audit handler
BulkReturn ==
    /\ pc = "bulk"
    /\ idx > Len(alertableFindings(findings))
    /\ pc' = "done"
    /\ ret' = IF req.op = "sendBulkSpikeAlerts"
              THEN Return([sent |-> sent, skipped |-> skipped])
              ELSE auditSuccess(summaryResult, [sent |-> sent, skipped |-> skipped])
    /\ UNCHANGED <<userExists, settingsRow, req, findings, idx, sent, skipped,
                   summaryResult, http, log, queries>>

----------------------------------------------------------------------------
(* Sessions and the user table                                             *)

\* getServerSession: no session, or a session with or without user and email
Sessions ==
    {Null, [user |-> Null], [user |-> [email |-> Null]],
     [user |-> [email |-> Str("")]], [user |-> [email |-> Str(UserEmail)]]}

\* session?.user?.email
sessionEmail(session) ==
    IF session = Null THEN Undefined
    ELSE IF session.user = Null THEN Undefined
    ELSE session.user.email

\* prisma.user.findUnique({ where: { email }, include: { settings: true } })
userRow == IF userExists THEN [email |-> UserEmail, settings |-> settingsRow] ELSE Null

\* request.json(): a rejected promise, or the parsed body
JsonOf(bodies) == {Throw} \cup {Value(b) : b \in bodies}

----------------------------------------------------------------------------
(* api/spike/alert: POST, the single-alert handler                         *)

AlertPayloads == [severity : {Str(l) : l \in SeverityLabels} \cup {Undefined}]

AlertJson == JsonOf(AlertPayloads)

\* routeMapSeverityToPriority matching the label as it is written
routeMapSeverityToPriority_caseSensitive(severity) ==
    CASE severity = "CRITICAL" -> "P1"
      [] severity = "HIGH" -> "P2"
      [] severity = "MEDIUM" -> "P3"
      [] severity = "LOW" -> "P4"
      [] OTHER -> "P3"

routeMapSeverityToPriority(severity) ==
    LET s == toUpperCase(severity) IN
    CASE s = "CRITICAL" -> "P1"
      [] s = "HIGH" -> "P2"
      [] s = "MEDIUM" -> "P3"
      [] s = "LOW" -> "P4"
      [] OTHER -> "P3"

\* line 55: !settings?.spikeEnabled || !settings?.spikeWebhookUrl
routeSpikeNotEnabled(settings) ==
    \/ settings = Null
    \/ ~Truthy(settings.spikeEnabled)
    \/ ~Truthy(settings.spikeWebhookUrl)

\* lines 52-103, from the settings to the fetch call
alertPOSTDecide(settings, json) ==
    IF routeSpikeNotEnabled(settings)
    THEN Response(400, ErrorBody("Spike.sh integration is not enabled"))
    ELSE IF json.t = "throw" THEN Throw
    ELSE IF json.v.severity.t # "string" THEN Throw
    ELSE LET payload == json.v
             severity == toUpperCase(payload.severity.v)
         IN  IF severity = "CRITICAL" /\ ~Truthy(settings.spikeAlertOnCritical)
             THEN Response(200, [message |-> "Alert skipped - Critical alerts are disabled"])
             ELSE IF severity = "HIGH" /\ ~Truthy(settings.spikeAlertOnHigh)
             THEN Response(200, [message |-> "Alert skipped - High alerts are disabled"])
             ELSE IF severity = "MEDIUM" \/ severity = "LOW"
             THEN Response(200, [message |-> "Alert skipped - alerts are not enabled"])
             ELSE Fetch(settings.spikeWebhookUrl.v,
                        [type |-> "finding",
                         title |-> payload.severity.v,
                         status |-> IF severity = "CRITICAL" THEN "CRITICAL"
                                    ELSE "WARNING",
                         priority |-> routeMapSeverityToPriority(payload.severity.v),
                         severity |-> payload.severity.v])

\* lines 37-50, then the decision
alertPOSTBegin(session, lookup, json) ==
    IF ~Truthy(sessionEmail(session)) THEN Response(401, ErrorBody("Unauthorized"))
    ELSE IF lookup.t = "throw" THEN Throw
    ELSE IF lookup.v = Null THEN Response(404, ErrorBody("User not found"))
    ELSE alertPOSTDecide(lookup.v.settings, json)

\* lines 114-126
alertPOSTEnd(outcome) ==
    IF outcome.t = "throw" THEN Throw
    ELSE IF ~ResponseOk(outcome)
         THEN IF outcome.text = "throw" THEN Throw
              ELSE Response(500, ErrorBody("Failed to send alert to Spike.sh"))
         ELSE Response(200, [success |-> TRUE])

\* lines 127-133
alertPOSTCatch(completion) == IF completion.t = "throw" THEN routeCatch ELSE completion

\* the number of prisma queries a handler issues before its first return
queriesOf(session) == IF Truthy(sessionEmail(session)) THEN 1 ELSE 0

AlertPOST(session, fails, json) ==
    /\ Idle
    /\ LET lookup == Lookup(fails, userRow)
           begin == alertPOSTBegin(session, lookup, json)
           decided == /\ Truthy(sessionEmail(session))
                      /\ lookup.t = "value"
                      /\ lookup.v # Null
           finding == IF json.t = "value" /\ json.v.severity.t = "string"
                      THEN [severity |-> json.v.severity.v]
                      ELSE Null
           entry(completion) ==
               Entry("finding", finding, Value(lookup.v.settings), begin, completion)
       IN  /\ req' = [op |-> "alertPOST", session |-> session, json |-> json]
           /\ IF begin.t = "fetch"
              THEN /\ http' = Exchange(begin)
                   /\ log' = <<entry(Null)>>
                   /\ pc' = "alert_fetch"
                   /\ ret' = Null
              ELSE /\ http' = Null
                   /\ log' = IF decided THEN <<entry(alertPOSTCatch(begin))>> ELSE <<>>
                   /\ pc' = "done"
                   /\ ret' = alertPOSTCatch(begin)
    /\ queries' = queriesOf(session)
    /\ findings' = <<>>
    /\ idx' = 0
    /\ sent' = 0
    /\ skipped' = 0
    /\ summaryResult' = Null
    /\ UNCHANGED <<userExists, settingsRow>>

AlertFetchReturn(outcome) ==
    /\ pc = "alert_fetch"
    /\ LET completion == alertPOSTCatch(alertPOSTEnd(outcome)) IN
       /\ http' = [http EXCEPT !.outcome = outcome]
       /\ log' = Completed(log, completion)
       /\ ret' = completion
    /\ pc' = "done"
    /\ UNCHANGED <<userExists, settingsRow, req, findings, idx, sent, skipped,
                   summaryResult, queries>>

----------------------------------------------------------------------------
(* api/spike/test: POST, the test-webhook handler                          *)

TestBodies == [webhookUrl : {Undefined, Str(""), Str(WebhookUrl)}]

TestJson == JsonOf(TestBodies)

testPOSTBegin(session, json) ==
    IF ~Truthy(sessionEmail(session)) THEN Response(401, ErrorBody("Unauthorized"))
    ELSE IF json.t = "throw" THEN Throw
    ELSE IF ~Truthy(json.v.webhookUrl)
    THEN Response(400, ErrorBody("Webhook URL is required"))
    ELSE Fetch(json.v.webhookUrl.v,
               [type |-> "test", title |-> "CloudGuard Test Alert", status |-> "INFO",
                priority |-> "LOW", severity |-> ""])

testPOSTEnd(outcome) ==
    IF outcome.t = "throw" THEN Throw
    ELSE IF ~ResponseOk(outcome)
         THEN IF outcome.text = "throw" THEN Throw
              ELSE Response(500, ErrorBody("Failed to send test alert to Spike.sh"))
         ELSE Response(200, [success |-> TRUE])

testPOSTCatch(completion) == IF completion.t = "throw" THEN routeCatch ELSE completion

TestPOST(session, json) ==
    /\ Idle
    /\ LET begin == testPOSTBegin(session, json) IN
       /\ req' = [op |-> "testPOST", session |-> session, json |-> json]
       /\ IF begin.t = "fetch"
          THEN /\ http' = Exchange(begin)
               /\ pc' = "test_fetch"
               /\ ret' = Null
          ELSE /\ http' = Null
               /\ pc' = "done"
               /\ ret' = testPOSTCatch(begin)
    /\ log' = <<>>
    /\ queries' = 0
    /\ findings' = <<>>
    /\ idx' = 0
    /\ sent' = 0
    /\ skipped' = 0
    /\ summaryResult' = Null
    /\ UNCHANGED <<userExists, settingsRow>>

TestFetchReturn(outcome) ==
    /\ pc = "test_fetch"
    /\ http' = [http EXCEPT !.outcome = outcome]
    /\ ret' = testPOSTCatch(testPOSTEnd(outcome))
    /\ pc' = "done"
    /\ UNCHANGED <<userExists, settingsRow, req, findings, idx, sent, skipped,
                   summaryResult, log, queries>>

----------------------------------------------------------------------------
(* api/spike/audit: POST, the audit-alert handler                          *)

Providers == {"AWS", "GCP", "AZURE"}

AuditBodies ==
    [auditId : {Undefined, Str("audit-1")},
     cloudProvider : {Undefined, Str("OCI")} \cup {Str(p) : p \in Providers},
     sendIndividualAlerts : {Undefined, Bool(FALSE), Bool(TRUE)}]

AuditJson == JsonOf(AuditBodies)

\* an audit row of the caller: the severity counters are columns the audit run
\* stored, the findings are the rows stored with it
AuditRow(critical, high, medium, low, totalFindings, fs) ==
    [critical |-> critical, high |-> high, medium |-> medium, low |-> low,
     totalFindings |-> totalFindings, findings |-> fs]

\* the finding rows stored with one audit
MaxStored == 2

AuditRows ==
    {AuditRow(c, h, 0, 0, t, fs) :
        c \in 0..MaxCount, h \in 0..MaxCount, t \in {0, MaxStored},
        fs \in SeqsUpTo([severity : AuditLabels], MaxStored)}

\* the handler returned before it asked for the audit
NotAsked == [t |-> "none"]

\* what findFirst on the provider's audit table can come to
AuditLookups == {Throw, Value(Null)} \cup {Value(a) : a \in AuditRows}

\* include: { findings: { where: { severity: { in: ["CRITICAL", "HIGH"] } } } }
includedFindings(audit) ==
    SelectSeq(audit.findings, LAMBDA f : f.severity \in {"CRITICAL", "HIGH"})

Proceed(summary, fs, individual) ==
    [t |-> "proceed", summary |-> summary, findings |-> fs, individual |-> individual]

\* lines 30-122, from the body to the call of sendAuditSummaryAlert
auditPOSTFetch(json, auditLookup) ==
    IF json.t = "throw" THEN Throw
    ELSE LET auditId == json.v.auditId
             cloudProvider == json.v.cloudProvider
             sendIndividualAlerts ==
                 IF json.v.sendIndividualAlerts = Undefined THEN Bool(FALSE)
                 ELSE json.v.sendIndividualAlerts
         IN  IF ~Truthy(auditId) \/ ~Truthy(cloudProvider)
             THEN Response(400, ErrorBody("auditId and cloudProvider are required"))
             ELSE IF cloudProvider.v \notin Providers
             THEN Response(404, ErrorBody("Audit not found"))
             ELSE IF auditLookup.t = "throw" THEN Throw
             ELSE IF auditLookup.v = Null
             THEN Response(404, ErrorBody("Audit not found"))
             ELSE LET audit == auditLookup.v IN
                  Proceed([critical |-> audit.critical, high |-> audit.high,
                           medium |-> audit.medium, low |-> audit.low,
                           total |-> audit.totalFindings],
                          includedFindings(audit), sendIndividualAlerts)

\* lines 16-28, then the body and the audit
auditPOSTBegin(session, lookup, json, auditLookup) ==
    IF ~Truthy(sessionEmail(session)) THEN Response(401, ErrorBody("Unauthorized"))
    ELSE IF lookup.t = "throw" THEN Throw
    ELSE IF lookup.v = Null THEN Response(404, ErrorBody("User not found"))
    ELSE auditPOSTFetch(json, auditLookup)

\* lines 142-148
auditPOSTCatch(completion) == IF completion.t = "throw" THEN routeCatch ELSE completion

\* the prisma queries of lines 22 and 53/72/91
auditQueries(session, lookup, json) ==
    IF ~Truthy(sessionEmail(session)) THEN 0
    ELSE IF lookup.t = "throw" \/ lookup.v = Null \/ json.t = "throw" THEN 1
    ELSE IF ~Truthy(json.v.auditId) \/ ~Truthy(json.v.cloudProvider) THEN 1
    ELSE IF json.v.cloudProvider.v \notin Providers THEN 1
    ELSE 2

\* how a findUnique / findFirst came out
Found(lookup) ==
    IF lookup.t = "none" THEN "none"
    ELSE IF lookup.t = "throw" THEN "failed"
    ELSE IF lookup.v = Null THEN "missing"
    ELSE "found"

\* the results findFirst can give this request: none when lines 16-37 return
\* or the provider has no audit table
AuditResults(session, fails, json) ==
    IF auditQueries(session, Lookup(fails, userRow), json) = 2 THEN AuditLookups
    ELSE {NotAsked}

AuditPOST(session, fails, json, auditLookup) ==
    /\ Idle
    /\ LET lookup == Lookup(fails, userRow)
           begin == auditPOSTBegin(session, lookup, json, auditLookup)
       IN  /\ queries' = auditQueries(session, lookup, json)
           /\ IF begin.t = "proceed"
              THEN /\ req' = [op |-> "auditPOST", session |-> session,
                              summary |-> begin.summary,
                              sendIndividualAlerts |-> begin.individual]
                   /\ findings' = begin.findings
                   /\ pc' = "summary"
                   /\ ret' = Null
              ELSE /\ req' = [op |-> "auditPOST", session |-> session, json |-> json,
                              user |-> Found(lookup), audit |-> Found(auditLookup)]
                   /\ findings' = <<>>
                   /\ pc' = "done"
                   /\ ret' = auditPOSTCatch(begin)
    /\ idx' = 0
    /\ sent' = 0
    /\ skipped' = 0
    /\ summaryResult' = Null
    /\ http' = Null
    /\ log' = <<>>
    /\ UNCHANGED <<userExists, settingsRow>>

----------------------------------------------------------------------------
(* api/settings: GET and POST                                              *)

\* the values the settings form sends for a URL and for a switch
BodyUrls == {Undefined, Null, Str(""), Str(WebhookUrl)}
BodyFlags == {Undefined, Null, Bool(FALSE), Bool(TRUE)}

SettingsBodies ==
    [spikeWebhookUrl : BodyUrls, spikeEnabled : BodyFlags,
     spikeAlertOnCritical : BodyFlags, spikeAlertOnHigh : BodyFlags,
     slackWebhookUrl : {Undefined, Null}, slackEnabled : {Undefined},
     emailAlerts : {Undefined}, alertThreshold : {Undefined}]

SettingsJson == JsonOf(SettingsBodies)

SettingsFields == DOMAIN Row(Null, FALSE, FALSE, FALSE)

\* lines 175-184
settingsDefaults ==
    [spikeWebhookUrl |-> Str(""), spikeEnabled |-> Bool(FALSE),
     spikeAlertOnCritical |-> Bool(TRUE), spikeAlertOnHigh |-> Bool(FALSE),
     slackWebhookUrl |-> Str(""), slackEnabled |-> Bool(FALSE),
     emailAlerts |-> Bool(TRUE), alertThreshold |-> Str("CRITICAL")]

\* lines 227-236
upsertUpdate(body) == [f \in SettingsFields |-> Coalesce(body[f], Undefined)]

\* lines 237-247
upsertCreate(body) ==
    [spikeWebhookUrl |-> OrElse(body.spikeWebhookUrl, Null),
     spikeEnabled |-> OrElse(body.spikeEnabled, Bool(FALSE)),
     spikeAlertOnCritical |-> Coalesce(body.spikeAlertOnCritical, Bool(TRUE)),
     spikeAlertOnHigh |-> OrElse(body.spikeAlertOnHigh, Bool(FALSE)),
     slackWebhookUrl |-> OrElse(body.slackWebhookUrl, Null),
     slackEnabled |-> OrElse(body.slackEnabled, Bool(FALSE)),
     emailAlerts |-> Coalesce(body.emailAlerts, Bool(TRUE)),
     alertThreshold |-> OrElse(body.alertThreshold, Str("CRITICAL"))]

\* prisma.userSettings.upsert({ where, update, create })
\* an undefined field of update leaves the column as it is
upsert(row, update, create) ==
    IF row = Null THEN Value(create)
    ELSE Value([f \in SettingsFields |->
                   IF update[f].t = "undefined" THEN row[f] ELSE update[f]])

settingsCatch(completion) == IF completion.t = "throw" THEN routeCatch ELSE completion

\* GET, lines 159-186
settingsGET(session, lookup) ==
    IF ~Truthy(sessionEmail(session)) THEN Response(401, ErrorBody("Unauthorized"))
    ELSE IF lookup.t = "throw" THEN Throw
    ELSE IF lookup.v = Null THEN Response(404, ErrorBody("User not found"))
    ELSE Response(200, [settings |-> IF lookup.v.settings = Null THEN settingsDefaults
                                     ELSE lookup.v.settings])

SettingsGET(session, fails) ==
    /\ Idle
    /\ req' = [op |-> "settingsGET", session |-> session]
    /\ ret' = settingsCatch(settingsGET(session, Lookup(fails, userRow)))
    /\ queries' = queriesOf(session)
    /\ pc' = "done"
    /\ findings' = <<>>
    /\ idx' = 0
    /\ sent' = 0
    /\ skipped' = 0
    /\ summaryResult' = Null
    /\ http' = Null
    /\ log' = <<>>
    /\ UNCHANGED <<userExists, settingsRow>>

\* settingsPOST without the session check
settingsPOST_noSessionCheck(session, lookup, json, row, writeFails) ==
    IF lookup.t = "throw" THEN Throw
    ELSE IF lookup.v = Null THEN Response(404, ErrorBody("User not found"))
    ELSE IF json.t = "throw" THEN Throw
    ELSE LET written == upsert(row, upsertUpdate(json.v), upsertCreate(json.v)) IN
         IF written.t = "throw" \/ writeFails THEN Throw
         ELSE Response(200, [settings |-> written.v])

\* POST, lines 199-250: the response, which carries the row the upsert wrote;
\* the upsert may fail at the database
settingsPOST(session, lookup, json, row, writeFails) ==
    IF ~Truthy(sessionEmail(session)) THEN Response(401, ErrorBody("Unauthorized"))
    ELSE IF lookup.t = "throw" THEN Throw
    ELSE IF lookup.v = Null THEN Response(404, ErrorBody("User not found"))
    ELSE IF json.t = "throw" THEN Throw
    ELSE LET written == upsert(row, upsertUpdate(json.v), upsertCreate(json.v)) IN
         IF written.t = "throw" \/ writeFails THEN Throw
         ELSE Response(200, [settings |-> written.v])

\* the prisma queries of lines 205 and 225
settingsQueries(session, lookup, json) ==
    IF ~Truthy(sessionEmail(session)) THEN 0
    ELSE IF lookup.t = "throw" \/ lookup.v = Null \/ json.t = "throw" THEN 1
    ELSE 2

SettingsPOST(session, fails, json, writeFails) ==
    /\ pc \in {"idle", "done"}
    /\ LET completion == settingsPOST(session, Lookup(fails, userRow), json, settingsRow,
                                      writeFails)
       IN  /\ ret' = settingsCatch(completion)
           /\ settingsRow' = IF completion.t = "response" /\ completion.status = 200
                             THEN completion.body.settings
                             ELSE settingsRow
           /\ queries' = settingsQueries(session, Lookup(fails, userRow), json)
    /\ req' = [op |-> "settingsPOST", session |-> session, json |-> json]
    /\ pc' = "done"
    /\ findings' = <<>>
    /\ idx' = 0
    /\ sent' = 0
    /\ skipped' = 0
    /\ summaryResult' = Null
    /\ http' = Null
    /\ log' = <<>>
    /\ UNCHANGED userExists

----------------------------------------------------------------------------
(* The two copies of mapSeverityToPriority applied to one label            *)

MapSeverityToPriority(severity) ==
    /\ Idle
    /\ req' = [op |-> "mapSeverityToPriority", severity |-> severity]
    /\ ret' = Return([library |-> mapSeverityToPriority(severity),
                      route |-> routeMapSeverityToPriority(severity)])
    /\ pc' = "done"
    /\ findings' = <<>>
    /\ idx' = 0
    /\ sent' = 0
    /\ skipped' = 0
    /\ summaryResult' = Null
    /\ http' = Null
    /\ log' = <<>>
    /\ queries' = 0
    /\ UNCHANGED <<userExists, settingsRow>>

----------------------------------------------------------------------------
(* Scheduling                                                              *)

\* the client sends the settings request it has just sent once more
Resubmit ==
    /\ pc = "done"
    /\ req.op = "settingsPOST"
    /\ \E fails \in BOOLEAN, writeFails \in BOOLEAN :
          SettingsPOST(req.session, fails, req.json, writeFails)

\* the operation is over and its context is dropped
Complete ==
    /\ pc = "done"
    /\ pc' = "idle"
    /\ req' = [op |-> "none"]
    /\ findings' = <<>>
    /\ idx' = 0
    /\ sent' = 0
    /\ skipped' = 0
    /\ summaryResult' = Null
    /\ http' = Null
    /\ log' = <<>>
    /\ queries' = 0
    /\ ret' = Null
    /\ UNCHANGED <<userExists, settingsRow>>

----------------------------------------------------------------------------
(* Specification                                                           *)

Init ==
    /\ userExists \in BOOLEAN
    /\ settingsRow \in IF userExists THEN SettingsRows \cup {Null} ELSE {Null}
    /\ req = [op |-> "none"]
    /\ pc = "idle"
    /\ findings = <<>>
    /\ idx = 0
    /\ sent = 0
    /\ skipped = 0
    /\ summaryResult = Null
    /\ http = Null
    /\ log = <<>>
    /\ queries = 0
    /\ ret = Null

\* the requests and calls the environment can make while nothing is running
Start ==
    \/ \E f \in [severity : SeverityLabels], fails \in BOOLEAN : LibSendSpikeAlert(f, fails)
    \/ \E fs \in FindingLists : LibSendBulkSpikeAlerts(fs)
    \/ \E s \in Summaries : LibSendAuditSummaryAlert(s)
    \/ \E s \in Sessions, fails \in BOOLEAN, j \in AlertJson : AlertPOST(s, fails, j)
    \/ \E s \in Sessions, j \in TestJson : TestPOST(s, j)
    \/ \E s \in Sessions, fails \in BOOLEAN, j \in AuditJson :
           \E a \in AuditResults(s, fails, j) : AuditPOST(s, fails, j, a)
    \/ \E s \in Sessions, fails \in BOOLEAN : SettingsGET(s, fails)
    \/ \E s \in Sessions, fails \in BOOLEAN, j \in SettingsJson, writeFails \in BOOLEAN :
           SettingsPOST(s, fails, j, writeFails)

Next ==
    \/ Idle /\ Start
    \/ \E o \in FetchOutcomes : SingleFetchReturn(o)
    \/ \E fails \in BOOLEAN : BulkCall(fails)
    \/ \E o \in FetchOutcomes : BulkFetchReturn(o)
    \/ BulkReturn
    \/ \E fails \in BOOLEAN : SummaryCall(fails)
    \/ \E o \in FetchOutcomes : SummaryFetchReturn(o)
    \/ \E o \in FetchOutcomes : AlertFetchReturn(o)
    \/ \E o \in FetchOutcomes : TestFetchReturn(o)
    \/ Resubmit
    \/ Complete

Spec == Init /\ [][Next]_vars

\* sendBulkSpikeAlerts alone. Every await of the loop settles: fetch resolves or
\* rejects, the 100 ms timer fires, and the event loop then runs the continuation.
BulkStep ==
    \/ \E fails \in BOOLEAN : BulkCall(fails)
    \/ \E o \in FetchOutcomes : BulkFetchReturn(o)
    \/ BulkReturn

BulkNext ==
    \/ Idle /\ \E fs \in FindingLists : LibSendBulkSpikeAlerts(fs)
    \/ BulkStep
    \/ Complete

BulkSpec == Init /\ [][BulkNext]_vars /\ WF_vars(BulkStep)

\* the severity-to-priority table alone
PriorityNext ==
    \/ \E l \in SeverityLabels : MapSeverityToPriority(l)
    \/ Complete

PrioritySpec == Init /\ [][PriorityNext]_vars

----------------------------------------------------------------------------
(* An audit-alert request with settings updates of the same user running    *)
(* beside it                                                                *)

\* the settings values one running request may come to see
MaxSettingsValues == 2

OtherWebhookUrl == "https://hooks.spike.sh/b"

NoChange == [f \in SettingsFields |-> Undefined]

\* what the settings page posts when one control is changed
ChangeBodies ==
    {[NoChange EXCEPT !.spikeEnabled = Bool(FALSE)],
     [NoChange EXCEPT !.spikeWebhookUrl = Str(OtherWebhookUrl)]}

ChangeJson == JsonOf(ChangeBodies)

\* the session of the user whose audit request is running
UserSession == [user |-> [email |-> Str(UserEmail)]]

\* the settings values the calls of the running request have read
SettingsRead ==
    {log[i].lookup.v : i \in {k \in 1..Len(log) : log[k].lookup.t = "value"}}

\* the settings handler serving another request of the user while the audit
\* handler is suspended at an await; its response goes to its own caller
SettingsPOSTMeanwhile(session, fails, json, writeFails) ==
    /\ req.op = "auditPOST"
    /\ pc \in {"summary", "summary_fetch", "bulk", "bulk_fetch"}
    /\ LET completion == settingsPOST(session, Lookup(fails, userRow), json, settingsRow,
                                      writeFails)
           row == IF completion.t = "response" /\ completion.status = 200
                  THEN completion.body.settings
                  ELSE settingsRow
       IN  /\ Cardinality(SettingsRead \cup {row}) <= MaxSettingsValues
           /\ settingsRow' = row
    /\ UNCHANGED <<userExists, req, pc, findings, idx, sent, skipped, summaryResult,
                   http, log, queries, ret>>

ConcurrentNext ==
    \/ Idle /\ \E s \in Sessions, fails \in BOOLEAN, j \in AuditJson :
                   \E a \in AuditResults(s, fails, j) : AuditPOST(s, fails, j, a)
    \/ \E fails \in BOOLEAN : SummaryCall(fails)
    \/ \E o \in FetchOutcomes : SummaryFetchReturn(o)
    \/ \E fails \in BOOLEAN : BulkCall(fails)
    \/ \E o \in FetchOutcomes : BulkFetchReturn(o)
    \/ BulkReturn
    \/ \E fails \in BOOLEAN, j \in ChangeJson, writeFails \in BOOLEAN :
           SettingsPOSTMeanwhile(UserSession, fails, j, writeFails)
    \/ Complete

ConcurrentSpec == Init /\ [][ConcurrentNext]_vars

----------------------------------------------------------------------------
(* Vocabulary of the properties                                            *)

Normalised(label) ==
    CASE label \in {"CRITICAL", "critical", "Critical"} -> "CRITICAL"
      [] label \in {"HIGH", "high", "High"} -> "HIGH"
      [] label \in {"MEDIUM", "medium"} -> "MEDIUM"
      [] label \in {"LOW", "low"} -> "LOW"
      [] OTHER -> "OTHER"

IsCriticalOrHigh(label) == Normalised(label) \in {"CRITICAL", "HIGH"}

\* the settings a call read: integration enabled and a webhook URL configured
Configured(settings) ==
    /\ settings # Null
    /\ settings.spikeEnabled = Bool(TRUE)
    /\ settings.spikeWebhookUrl \notin {Null, Str("")}

OptedIn(settings, label) ==
    \/ Normalised(label) = "CRITICAL" /\ settings.spikeAlertOnCritical = Bool(TRUE)
    \/ Normalised(label) = "HIGH" /\ settings.spikeAlertOnHigh = Bool(TRUE)

LibraryOps == {"sendSpikeAlert", "sendBulkSpikeAlerts", "sendAuditSummaryAlert"}
ApiOps == {"alertPOST", "testPOST", "auditPOST", "settingsGET", "settingsPOST"}

\* the entries of the log that are calls for a finding whose settings lookup
\* returned
FindingCalls ==
    {i \in 1..Len(log) : /\ log[i].type = "finding"
                         /\ log[i].finding # Null
                         /\ log[i].lookup.t = "value"}

----------------------------------------------------------------------------
(* C1: a finding alert is POSTed to the webhook only for a finding whose    *)
(* case-normalised severity is CRITICAL or HIGH, on the library path and on *)
(* the single-alert API entry point alike.                                  *)

C1_OnlyCriticalOrHighPosted ==
    (http # Null /\ http.payload.type = "finding")
        => IsCriticalOrHigh(http.payload.severity)

(* C2: a CRITICAL finding is alerted iff the settings read are configured   *)
(* and alertOnCritical is on, a HIGH finding iff they are configured and    *)
(* alertOnHigh is on, whatever the other opt-in says, in the library and in *)
(* the single-alert handler.                                                *)

C2_DecisionBySeverityOptIn ==
    \A i \in FindingCalls :
        IsCriticalOrHigh(log[i].finding.severity)
            => (log[i].posted <=>
                    /\ Configured(log[i].lookup.v)
                    /\ OptedIn(log[i].lookup.v, log[i].finding.severity))

C2_Witness ==
    /\ req.op \in {"sendSpikeAlert", "alertPOST"}
    /\ \E i \in FindingCalls :
          /\ Normalised(log[i].finding.severity) = "CRITICAL"
          /\ log[i].posted
          /\ log[i].lookup.v.spikeAlertOnHigh = Bool(FALSE)

(* C3: with the integration enabled and a URL configured, the summary      *)
(* operation dispatches nothing iff critical = 0 and high = 0; what it      *)
(* dispatches is CRITICAL/P1 when critical > 0 and WARNING/P2 when          *)
(* critical = 0 and high > 0.                                               *)

SummaryCalls ==
    {i \in 1..Len(log) : /\ log[i].type = "audit_summary"
                         /\ log[i].lookup.t = "value"
                         /\ Configured(log[i].lookup.v)}

C3_SummaryAlert ==
    /\ \A i \in SummaryCalls :
          log[i].posted <=> ~(req.summary.critical = 0 /\ req.summary.high = 0)
    /\ (http # Null /\ http.payload.type = "audit_summary")
          => /\ req.summary.critical > 0
                => http.payload.status = "CRITICAL" /\ http.payload.priority = "P1"
             /\ (req.summary.critical = 0 /\ req.summary.high > 0)
                => http.payload.status = "WARNING" /\ http.payload.priority = "P2"

C3_Witness ==
    /\ req.op = "sendAuditSummaryAlert"
    /\ SummaryCalls # {}
    /\ req.summary.critical > 0
    /\ req.summary.high > 0
    /\ http # Null
    /\ http.payload.priority = "P1"

(* C4: batch dispatch calls the single-alert path only for the findings     *)
(* whose severity is CRITICAL or HIGH, and the counts it returns add up to  *)
(* the number of such findings in its input.                                *)

AlertableCount(fs) ==
    Cardinality({i \in 1..Len(fs) : IsCriticalOrHigh(fs[i].severity)})

C4_BatchCounts ==
    req.op = "sendBulkSpikeAlerts"
        => /\ \A i \in 1..Len(log) : IsCriticalOrHigh(log[i].finding.severity)
           /\ Len(log) <= AlertableCount(findings)
           /\ pc = "done"
                 => /\ ret.t = "return"
                    /\ ret.v.sent + ret.v.skipped = AlertableCount(findings)
                    /\ Len(log) = AlertableCount(findings)

C4_Witness ==
    /\ req.op = "sendBulkSpikeAlerts"
    /\ pc = "done"
    /\ Len(findings) > AlertableCount(findings)
    /\ ret.v.sent > 0
    /\ ret.v.skipped > 0

(* C5: a dispatch returns true only on a 2xx response; on any other         *)
(* response, on a transport failure and on a failed settings lookup it      *)
(* returns false, and it never raises.                                      *)

DispatchOps == LibraryOps \cup {"auditPOST"}

C5_DispatchResult ==
    req.op \in DispatchOps
        => /\ \A i \in 1..Len(log) :
                 /\ log[i].completion \in {Null, Return(Bool(TRUE)), Return(Bool(FALSE))}
                 /\ log[i].lookup.t = "throw" => log[i].completion = Return(Bool(FALSE))
           /\ (http # Null /\ http.outcome # Null)
                 => log[Len(log)].completion =
                        Return(Bool(/\ http.outcome.t = "response"
                                    /\ http.outcome.status \in 200..299))
           /\ req.op \in LibraryOps => ret.t \in {"null", "return"}

C5_Witness ==
    /\ req.op \in {"sendSpikeAlert", "sendAuditSummaryAlert"}
    /\ http # Null
    /\ http.outcome # Null
    /\ http.outcome.t = "response"
    /\ http.outcome.status = 500
    /\ ret = Return(Bool(FALSE))

(* C6: a failed dispatch never aborts a batch: the batch calls the          *)
(* single-alert path once for each CRITICAL/HIGH finding, in input order,   *)
(* one call at a time, goes on after a failed send, and terminates.         *)

Alertable(fs) == SelectSeq(fs, LAMBDA f : IsCriticalOrHigh(f.severity))

BatchInOrder ==
    /\ Len(log) <= Len(Alertable(findings))
    /\ \A i \in 1..Len(log) : log[i].finding = Alertable(findings)[i]
    /\ \A i \in 1..(Len(log) - 1) : log[i].completion # Null
    /\ pc = "bulk" => Len(log) = idx - 1 /\ (\A i \in 1..Len(log) : log[i].completion # Null)
    /\ pc = "bulk_fetch" => Len(log) = idx /\ log[idx].completion = Null
    /\ pc = "done" => Len(log) = Len(Alertable(findings))

C6_BatchRunsToTheEnd ==
    /\ [](req.op = "sendBulkSpikeAlerts" => BatchInOrder)
    /\ (req.op = "sendBulkSpikeAlerts" /\ pc = "bulk")
          ~> (req.op = "sendBulkSpikeAlerts" /\ pc = "done")

C6_Witness ==
    /\ req.op = "sendBulkSpikeAlerts"
    /\ pc = "done"
    /\ Len(log) = 3
    /\ log[1].completion = Return(Bool(FALSE))
    /\ log[1].posted
    /\ log[2].completion = Return(Bool(FALSE))
    /\ log[2].lookup.t = "throw"
    /\ log[3].completion = Return(Bool(TRUE))

(* C7: mapSeverityToPriority is total and case-insensitive: CRITICAL -> P1, *)
(* HIGH -> P2, MEDIUM -> P3, LOW -> P4, anything else -> P3, and the copy   *)
(* of the library and the copy of the single-alert handler agree.           *)

PriorityTable(label) ==
    CASE Normalised(label) = "CRITICAL" -> "P1"
      [] Normalised(label) = "HIGH" -> "P2"
      [] Normalised(label) = "MEDIUM" -> "P3"
      [] Normalised(label) = "LOW" -> "P4"
      [] OTHER -> "P3"

C7_PriorityTotal ==
    req.op = "mapSeverityToPriority"
        => /\ ret.v.library \in Priorities
           /\ ret.v.library = PriorityTable(req.severity)
           /\ ret.v.route = ret.v.library

C7_Witness ==
    /\ req.op = "mapSeverityToPriority"
    /\ req.severity = "low"
    /\ ret.v.route = "P4"

(* C8: posting the same settings body twice in a row leaves the settings    *)
(* row that posting it once left.                                           *)

C8_UpsertIdempotent ==
    [][(/\ pc = "done"
        /\ req.op = "settingsPOST"
        /\ ret.status = 200
        /\ pc' = "done"
        /\ req' = req)
          => settingsRow' = settingsRow]_vars

(* C9: settings that are missing, disabled or without a webhook URL make    *)
(* every dispatch entry point a no-op that reports a skip and not an error. *)

NotConfiguredCalls ==
    {i \in 1..Len(log) : log[i].lookup.t = "value" /\ ~Configured(log[i].lookup.v)}

SkipsInLibrary ==
    \A i \in NotConfiguredCalls :
        /\ ~log[i].posted
        /\ req.op \in DispatchOps => log[i].completion = Return(Bool(FALSE))
        /\ (req.op = "sendSpikeAlert" /\ pc = "done") => ret = Return(Bool(FALSE))
        /\ (req.op = "sendAuditSummaryAlert" /\ pc = "done") => ret = Return(Bool(FALSE))
        /\ (req.op = "sendBulkSpikeAlerts" /\ pc = "done")
              => /\ ret.t = "return"
                 /\ ret.v.skipped >= Cardinality(NotConfiguredCalls)
        /\ (req.op = "auditPOST" /\ pc = "done" /\ log[i].type = "audit_summary")
              => (ret.status = 200 /\ ret.body.summaryAlertSent = Bool(FALSE))

C9_SkipNotError ==
    /\ SkipsInLibrary
    /\ \A i \in NotConfiguredCalls :
          (req.op = "alertPOST" /\ pc = "done") => ret.status < 400

C9_SkipOrBadRequest ==
    /\ SkipsInLibrary
    /\ \A i \in NotConfiguredCalls :
          (req.op = "alertPOST" /\ pc = "done")
              => ret = Response(400, ErrorBody("Spike.sh integration is not enabled"))

C9_Witness ==
    /\ req.op = "alertPOST"
    /\ pc = "done"
    /\ NotConfiguredCalls # {}
    /\ log[1].lookup.v # Null
    /\ log[1].lookup.v.spikeEnabled = Bool(FALSE)
    /\ log[1].lookup.v.spikeWebhookUrl = Str(WebhookUrl)
    /\ http = Null
    /\ ret.status = 400

(* C10: on every API entry point a request without a valid session is       *)
(* answered 401 and nothing else happens: no query, no webhook POST, no     *)
(* change of the settings row.                                              *)

ValidSession(session) ==
    /\ session # Null
    /\ session.user # Null
    /\ session.user.email \notin {Null, Str("")}

C10_UnauthorizedNoSideEffect ==
    [][(/\ pc' = "done"
        /\ req'.op \in ApiOps
        /\ ~ValidSession(req'.session))
          => /\ ret' = Response(401, ErrorBody("Unauthorized"))
             /\ queries' = 0
             /\ http' = Null
             /\ log' = <<>>
             /\ settingsRow' = settingsRow]_vars

C10_Witness ==
    /\ req.op = "settingsPOST"
    /\ pc = "done"
    /\ ~ValidSession(req.session)
    /\ req.json.t = "value"
    /\ req.json.v.spikeEnabled = Bool(TRUE)
    /\ settingsRow # Null
    /\ settingsRow.spikeEnabled = Bool(FALSE)
    /\ ret.status = 401

(* C11: under any interleaving of an audit-alert request with settings      *)
(* updates of the same user, every alert of that request is decided against *)
(* one and the same settings value: once a finding of the batch has been    *)
(* posted, a later finding of the same severity in the same batch is posted *)
(* too, and to the same URL.                                                *)

C11_BatchNotSplit ==
    req.op = "auditPOST" =>
        \A i \in FindingCalls, j \in FindingCalls :
            (i < j /\ log[i].finding = log[j].finding /\ log[i].posted)
                => /\ log[j].posted
                   /\ log[j].lookup.v.spikeWebhookUrl = log[i].lookup.v.spikeWebhookUrl

(* C12: an audit-alert request whose audit is found attempts the summary    *)
(* alert exactly once and before any per-finding alert; per-finding alerts  *)
(* are attempted only when sendIndividualAlerts is true and the audit has a *)
(* CRITICAL/HIGH finding; when the audit is not found for the caller and    *)
(* provider the response is 404 and no alert is attempted.                  *)

\* the request got as far as the audit: lines 111-113 passed
AuditReached == req.op = "auditPOST" /\ "summary" \in DOMAIN req

\* a request that returned before line 116 although caller, user and body
\* were in order
AuditAsked ==
    /\ req.op = "auditPOST"
    /\ "summary" \notin DOMAIN req
    /\ ValidSession(req.session)
    /\ req.user = "found"
    /\ req.json.t = "value"
    /\ Truthy(req.json.v.auditId)
    /\ Truthy(req.json.v.cloudProvider)

SummaryAttempts == {i \in 1..Len(log) : log[i].type = "audit_summary"}
FindingAttempts == {i \in 1..Len(log) : log[i].type = "finding"}

C12_SummaryThenFindings ==
    /\ AuditReached =>
          /\ pc = "summary" => log = <<>>
          /\ pc # "summary" => SummaryAttempts = {1}
          /\ FindingAttempts # {} =>
                /\ req.sendIndividualAlerts = Bool(TRUE)
                /\ Len(findings) > 0
                /\ \A i \in 1..Len(findings) : findings[i].severity \in {"CRITICAL", "HIGH"}
    /\ (req.op = "auditPOST" /\ ~AuditReached) => (log = <<>> /\ http = Null)
    /\ AuditAsked =>
          /\ req.json.v.cloudProvider.v \in Providers => req.audit # "found"
          /\ (req.json.v.cloudProvider.v \notin Providers \/ req.audit = "missing")
                => ret = Response(404, ErrorBody("Audit not found"))

C12_Witness ==
    /\ AuditReached
    /\ pc = "done"
    /\ Len(log) = 3
    /\ log[1].posted
    /\ log[3].posted
    /\ ret.status = 200

\* the audit is not there: 404 and nothing attempted
C12_NotFoundReached ==
    /\ AuditAsked
    /\ req.audit = "missing"
    /\ req.json.v.sendIndividualAlerts = Bool(TRUE)
    /\ ret.status = 404
    /\ Configured(settingsRow)

(* C13: the summary alert does not consult the per-severity opt-ins: with   *)
(* the integration enabled and a URL configured it is dispatched whenever   *)
(* critical > 0 or high > 0, as CRITICAL/P1 or WARNING/P2, whatever          *)
(* alertOnCritical and alertOnHigh say, also for a user with both opt-ins   *)
(* off, for whom sendSpikeAlert skips every per-finding alert.              *)

BothOptInsOff(settings) ==
    /\ settings # Null
    /\ settings.spikeAlertOnCritical = Bool(FALSE)
    /\ settings.spikeAlertOnHigh = Bool(FALSE)

C13_SummaryIgnoresOptIns ==
    /\ \A i \in SummaryCalls :
          (req.summary.critical > 0 \/ req.summary.high > 0) => log[i].posted
    /\ pc = "summary_fetch" =>
          <<http.payload.status, http.payload.priority>>
              \in {<<"CRITICAL", "P1">>, <<"WARNING", "P2">>}
    /\ req.op \in LibraryOps \cup {"auditPOST"} =>
          \A i \in FindingCalls : BothOptInsOff(log[i].lookup.v) => ~log[i].posted

C13_Witness ==
    /\ req.op = "auditPOST"
    /\ pc = "done"
    /\ Len(log) >= 2
    /\ \A i \in 1..Len(log) : log[i].lookup.t = "value" /\ BothOptInsOff(log[i].lookup.v)
    /\ log[1].type = "audit_summary"
    /\ log[1].posted
    /\ log[1].completion = Return(Bool(TRUE))
    /\ \A i \in 2..Len(log) : log[i].type = "finding" /\ ~log[i].posted

============================================================================
